---- MODULE Spec2Model ----
(***************************************************************************)
(* The translation scheme schemes/srinivas2015.ts (Srinivas 2015, Fig 3.4) *)
(* as a state machine: a CRN is read, the class formal is instantiated for *)
(* every species, and main compiles the CRN into a solution of complexes.  *)
(*                                                                         *)
(* A domain is a record [id, kind, tag, star]; a structure (the value of a *)
(* "domains" | "dot-parens" expression) is [dom, dot, attr] where attr     *)
(* holds the names of the expression, so that x.attr.fl is x.fl of the     *)
(* scheme.  Lists of the scheme are 0-based, sequences here are 1-based:   *)
(* r[i] of the scheme is r[i+1] here.  Every function that can allocate a  *)
(* domain takes the allocator's counter c and returns [val, c].  A strand   *)
(* break "+" is kept at every position where the scheme's strings or the   *)
(* spliced lists put one.                                                  *)
(***************************************************************************)
EXTENDS Integers, Sequences, FiniteSets, TLC

\* Bounds of the input CRN: reactions per CRN and species occurrences per CRN.
MaxRxns == 2
MaxOccur == 3

VARIABLES crn, pc, counter, species, out, gates

vars == <<crn, pc, counter, species, out, gates>>

----------------------------------------------------------------------------
\* Domains and the allocator.

Break == [id |-> 0, kind |-> "+", tag |-> "", star |-> FALSE]

short(c) == [id |-> c, kind |-> "short", tag |-> "", star |-> FALSE]

long(c, tag) == [id |-> c, kind |-> "long", tag |-> tag, star |-> FALSE]

Comp(d) == [d EXCEPT !.star = ~d.star]

----------------------------------------------------------------------------
\* Built-in list functions of the scheme language.

tail(l) == Tail(l)

reverse(l) == [i \in 1..Len(l) |-> l[Len(l) + 1 - i]]

\* range(n) = [0, ..., n-1], the scheme's 0-based indices
range(n) == [i \in 1..n |-> i - 1]

\* flip(l, n): the transpose of a list of n-tuples; n empty lists for l = []
flip(l, n) == [j \in 1..n |-> [i \in 1..Len(l) |-> l[i][j]]]

----------------------------------------------------------------------------
\* The expression "d1 d2 ..." | "s1 s2 ...": names are looked up in the
\* where-environment env, a name at a "~" is a list of structures spliced in,
\* a starred name is the complement.

N(x) == [name |-> x, star |-> FALSE]

S(x) == [name |-> x, star |-> TRUE]

P == [name |-> "+", star |-> FALSE]

cat2(a, b) == [dom |-> a.dom \o b.dom, dot |-> a.dot \o b.dot]

RECURSIVE concat(_)
concat(l) ==
  IF Len(l) = 0 THEN [dom |-> <<>>, dot |-> <<>>]
  ELSE cat2(l[1], concat(Tail(l)))

piece(tok, ch, env) ==
  IF tok.name = "+" THEN [dom |-> <<Break>>, dot |-> <<"+">>]
  ELSE IF ch = "~" THEN concat(env[tok.name])
  ELSE [dom |-> << IF tok.star THEN Comp(env[tok.name]) ELSE env[tok.name] >>,
        dot |-> <<ch>>]

structure(flat, attr) == [dom |-> flat.dom, dot |-> flat.dot, attr |-> attr]

dna(toks, dots, env) ==
  structure(concat([i \in 1..Len(toks) |-> piece(toks[i], dots[i], env)]),
            [n \in {toks[i].name : i \in 1..Len(toks)} \ {"+"} |-> env[n]])

----------------------------------------------------------------------------
\* class formal(s) = "f m s" | ". . ."

\* formal with s the toehold f again
formal_one_toehold(s, c) ==
  LET env == [f |-> short(c), m |-> long(c + 1, ""), s |-> short(c)]
  IN [val |-> dna(<<N("f"), N("m"), N("s")>>, <<".", ".", ".">>, env),
      c |-> c + 3]

formal(s, c) ==
  LET env == [f |-> short(c), m |-> long(c + 1, ""), s |-> short(c + 2)]
  IN [val |-> dna(<<N("f"), N("m"), N("s")>>, <<".", ".", ".">>, env),
      c |-> c + 3]

\* macro prodg(s)
prodg(s, c) ==
  LET env == [hy |-> long(c, "history"),
              fy |-> s.attr.f,
              my |-> s.attr.m,
              sy |-> s.attr.s]
  IN [val |-> << dna(<<N("hy"), N("fy"), N("my"), N("sy"), P>>,
                     <<"(", "(", ".", ".", "+">>, env),
                 dna(<<S("fy"), S("hy")>>, <<")", ")">>, env),
                 dna(<<N("hy"), N("fy")>>, <<".", ".">>, env) >>,
      c |-> c + 1]

\* map(prodg, l), the allocator threaded through the calls in list order
cons(h, t) == [val |-> <<h.val>> \o t.val, c |-> t.c]

RECURSIVE map_prodg(_, _)
map_prodg_from(h, l) == cons(h, map_prodg(l, h.c))

map_prodg(l, c) ==
  IF Len(l) = 0 THEN [val |-> <<>>, c |-> c]
  ELSE map_prodg_from(prodg(l[1], c), Tail(l))

\* module srinivas_pgate(r, p, hflux)
pgate_where(r, p, hflux, t, c) ==
  LET env == [sa |-> r[Len(r)].attr.s,
              hx |-> hflux,
              fx |-> p[1].attr.f,
              mx |-> p[1].attr.m,
              sx |-> p[1].attr.s,
              n |-> t[1],
              m |-> reverse(t[2]),
              help |-> t[3]]
  IN [val |-> << dna(<<N("hx"), N("fx"), N("mx"), N("sx"), P, N("n"), P,
                       N("m"), S("fx"), S("hx"), S("sa")>>,
                     <<"(", "(", ".", ".", "+", "~", "+",
                       "~", ")", ")", ".">>, env),
                 dna(<<N("fx"), N("help")>>, <<".", "~">>, env) >>,
      c |-> c]

pgate_flip(r, p, hflux, g) == pgate_where(r, p, hflux, flip(g.val, 3), g.c)

\* srinivas_pgate mapping prodg over p instead of tail(p)
srinivas_pgate_all(r, p, hflux, c) == pgate_flip(r, p, hflux, map_prodg(p, c))

srinivas_pgate(r, p, hflux, c) == pgate_flip(r, p, hflux, map_prodg(tail(p), c))

\* module srinivas_pgate_p1(r, p, hflux)
srinivas_pgate_p1(r, p, hflux, c) ==
  LET env == [sa |-> r[Len(r)].attr.s,
              hx |-> hflux,
              fx |-> p[1].attr.f,
              mx |-> p[1].attr.m,
              sx |-> p[1].attr.s]
  IN [val |-> << dna(<<N("hx"), N("fx"), N("mx"), N("sx"), P,
                       S("fx"), S("hx"), S("sa")>>,
                     <<"(", "(", ".", ".", "+", ")", ")", ".">>, env) >>,
      c |-> c]

\* flux taking the product's m for h instead of a new domain
flux_reuse(r, p, c) ==
  IF Len(p) = 0 THEN [val |-> << <<>> >>, c |-> c]
  ELSE IF Len(p) = 1
    THEN LET env == [h |-> p[1].attr.m, f |-> p[1].attr.f]
         IN [val |-> << << dna(<<N("h"), N("f")>>, <<".", ".">>, env) >> >>,
             c |-> c + 1]
    ELSE LET env == [h |-> p[1].attr.m, f |-> p[1].attr.f]
         IN [val |-> << << dna(<<N("h")>>, <<".">>, env) >> >>,
             c |-> c + 1]

\* flux with the strand "h f" for two or more products too
flux_pair(r, p, c) ==
  IF Len(p) = 0 THEN [val |-> << <<>> >>, c |-> c]
  ELSE IF Len(p) = 1
    THEN LET env == [h |-> long(c, ""), f |-> p[1].attr.f]
         IN [val |-> << << dna(<<N("h"), N("f")>>, <<".", ".">>, env) >> >>,
             c |-> c + 1]
    ELSE LET env == [h |-> long(c, ""), f |-> p[1].attr.f]
         IN [val |-> << << dna(<<N("h"), N("f")>>, <<".", ".">>, env) >> >>,
             c |-> c + 1]

\* module flux(r, p)
flux(r, p, c) ==
  IF Len(p) = 0 THEN [val |-> << <<>> >>, c |-> c]
  ELSE IF Len(p) = 1
    THEN LET env == [h |-> long(c, ""), f |-> p[1].attr.f]
         IN [val |-> << << dna(<<N("h"), N("f")>>, <<".", ".">>, env) >> >>,
             c |-> c + 1]
    ELSE LET env == [h |-> long(c, ""), f |-> p[1].attr.f]
         IN [val |-> << << dna(<<N("h")>>, <<".">>, env) >> >>,
             c |-> c + 1]

\* reactg with fa = r[i].f
reactg_same(r, i) ==
  LET env == [mb |-> r[i + 1].attr.m,
              sb |-> r[i + 1].attr.s,
              fa |-> r[i + 1].attr.f]
  IN << dna(<<N("mb"), N("sb"), N("fa"), P>>, <<"(", "(", "(", "+">>, env),
        dna(<<S("fa"), S("sb"), S("mb")>>, <<")", ")", ")">>, env),
        dna(<<N("mb"), N("sb"), N("fa")>>, <<".", ".", ".">>, env) >>

\* macro reactg(r, i), i the scheme's 0-based index
reactg(r, i) ==
  LET env == [mb |-> r[i + 1].attr.m,
              sb |-> r[i + 1].attr.s,
              fa |-> r[i + 2].attr.f]
  IN << dna(<<N("mb"), N("sb"), N("fa"), P>>, <<"(", "(", "(", "+">>, env),
        dna(<<S("fa"), S("sb"), S("mb")>>, <<")", ")", ")">>, env),
        dna(<<N("mb"), N("sb"), N("fa")>>, <<".", ".", ".">>, env) >>

\* map2(reactg, r, l)
map2_reactg(r, l) == [k \in 1..Len(l) |-> reactg(r, l[k])]

\* module srinivas_rgate(r, p)
\* srinivas_rgate without m = reverse(m)
rgate_where_unreversed(r, p, fx, t) ==
  LET env == [fr |-> r[1].attr.f,
              mr |-> r[Len(r)].attr.m,
              sr |-> r[Len(r)].attr.s,
              fl |-> fx.val[1],
              n |-> t[1],
              m |-> t[2],
              l |-> t[3]]
  IN [val |-> << dna(<<N("n"), P, N("mr"), N("sr"), N("fl"), P,
                       S("sr"), S("mr"), N("m"), S("fr")>>,
                     <<"~", "+", "(", "(", "~", "+",
                       ")", ")", "~", ".">>, env),
                 dna(<<N("l")>>, <<"~">>, env) >>,
      c |-> fx.c]

rgate_where(r, p, fx, t) ==
  LET env == [fr |-> r[1].attr.f,
              mr |-> r[Len(r)].attr.m,
              sr |-> r[Len(r)].attr.s,
              fl |-> fx.val[1],
              n |-> t[1],
              m |-> reverse(t[2]),
              l |-> t[3]]
  IN [val |-> << dna(<<N("n"), P, N("mr"), N("sr"), N("fl"), P,
                       S("sr"), S("mr"), N("m"), S("fr")>>,
                     <<"~", "+", "(", "(", "~", "+",
                       ")", ")", "~", ".">>, env),
                 dna(<<N("l")>>, <<"~">>, env) >>,
      c |-> fx.c]

srinivas_rgate(r, p, c) ==
  rgate_where(r, p, flux(r, p, c), flip(map2_reactg(r, range(Len(r) - 1)), 3))

\* module srinivas_rgate_r0(r, p)
\* srinivas_rgate_r0 with sr = f
rgate_r0_where_sr_f(r, p, f, m, s, fx) ==
  LET env == [f |-> f, m |-> m, s |-> s,
              fr |-> f, mr |-> m, sr |-> f,
              fl |-> fx.val[1]]
  IN [val |-> << dna(<<N("mr"), N("sr"), N("fl"), P,
                       S("sr"), S("mr"), S("fr")>>,
                     <<"(", "(", "~", "+", ")", ")", ".">>, env),
                 dna(<<N("f"), N("m"), N("s")>>, <<".", ".", ".">>, env) >>,
      c |-> fx.c]

rgate_r0_where(r, p, f, m, s, fx) ==
  LET env == [f |-> f, m |-> m, s |-> s,
              fr |-> f, mr |-> m, sr |-> s,
              fl |-> fx.val[1]]
  IN [val |-> << dna(<<N("mr"), N("sr"), N("fl"), P,
                       S("sr"), S("mr"), S("fr")>>,
                     <<"(", "(", "~", "+", ")", ")", ".">>, env),
                 dna(<<N("f"), N("m"), N("s")>>, <<".", ".", ".">>, env) >>,
      c |-> fx.c]

srinivas_rgate_r0(r, p, c) ==
  rgate_r0_where(r, p, short(c), long(c + 1, ""), short(c + 2), flux(r, p, c + 3))

----------------------------------------------------------------------------
\* infty(x): the complex x as a fuel of the solution; sum: the union.

infty(x) == {[dom |-> x.dom, dot |-> x.dot, conc |-> "infty"]}

sum(l) == UNION {l[i] : i \in 1..Len(l)}

\* rxn taking srinivas_rgate_r0 for one reactant too
rxn_react_upto1(r, c) ==
  IF Len(r.reactants) <= 1
    THEN srinivas_rgate_r0(r.reactants, r.products, c)
    ELSE srinivas_rgate(r.reactants, r.products, c)

\* module rxn(r), the binding react = ...
rxn_react(r, c) ==
  IF Len(r.reactants) = 0
    THEN srinivas_rgate_r0(r.reactants, r.products, c)
    ELSE srinivas_rgate(r.reactants, r.products, c)

\* hist read from the gate's stem instead of its flux
rxn_hist_stem(react) == react[1].attr.mr

\* module rxn(r), the binding hist = react[0].fl[0].h
rxn_hist(react) == react[1].attr.fl[1].attr.h

\* module rxn(r), the binding produce = ...
rxn_produce(r, react, c) ==
  IF Len(r.products) = 0 THEN [val |-> <<>>, c |-> c]
  ELSE IF Len(r.products) = 1 THEN
    IF Len(r.reactants) = 0
      THEN srinivas_pgate_p1(react, r.products, rxn_hist(react), c)
      ELSE srinivas_pgate_p1(r.reactants, r.products, rxn_hist(react), c)
  ELSE
    IF Len(r.reactants) = 0
      THEN srinivas_pgate(react, r.products, rxn_hist(react), c)
      ELSE srinivas_pgate(r.reactants, r.products, rxn_hist(react), c)

\* module rxn(r), the body sum(map(infty, react + produce)).  Besides the
\* solution (val) the result records what was built (log): the reaction, the
\* lists react and produce, and the allocator before and after.
rxn_sum(r, react, produce, c0, c1) ==
  [val |-> sum([i \in 1..Len(react \o produce) |-> infty((react \o produce)[i])]),
   c |-> c1,
   log |-> [r |-> r, react |-> react, produce |-> produce, c0 |-> c0, c1 |-> c1]]

rxn_gates(r, react, produce, c0) == rxn_sum(r, react.val, produce.val, c0, produce.c)

rxn_with(r, react, c0) == rxn_gates(r, react, rxn_produce(r, react.val, react.c), c0)

rxn(r, c) == rxn_with(r, rxn_react(r, c), c)

\* irrev_reactions(crn): a reversible reaction becomes its forward and its
\* backward irreversible reaction, in this order
RECURSIVE irrev_reactions(_)
irrev_reactions(l) ==
  IF Len(l) = 0 THEN <<>>
  ELSE LET x == l[1]
       IN (IF x.reversible
            THEN << [reactants |-> x.reactants, products |-> x.products,
                     reversible |-> FALSE],
                    [reactants |-> x.products, products |-> x.reactants,
                     reversible |-> FALSE] >>
            ELSE << x >>) \o irrev_reactions(Tail(l))

\* map(rxn, l), the allocator threaded through the calls in list order
cons_log(h, t) ==
  [val |-> <<h.val>> \o t.val, c |-> t.c, log |-> <<h.log>> \o t.log]

RECURSIVE map_rxn(_, _)
map_rxn_from(h, l) == cons_log(h, map_rxn(l, h.c))

map_rxn(l, c) ==
  IF Len(l) = 0 THEN [val |-> <<>>, c |-> c, log |-> <<>>]
  ELSE map_rxn_from(rxn(l[1], c), Tail(l))

main_sum(g) == [val |-> sum(g.val), c |-> g.c, log |-> g.log]

\* main without crn = irrev_reactions(crn)
main_as_given(l, c) == main_sum(map_rxn(l, c))

\* module main(crn)
main(l, c) == main_sum(map_rxn(irrev_reactions(l), c))

----------------------------------------------------------------------------
\* The input: a CRN over species named 1, 2, ... in the order of their first
\* occurrence, with at most MaxRxns reactions and MaxOccur occurrences.

Max(s) == IF s = {} THEN 0 ELSE CHOOSE x \in s : \A y \in s : y <= x

RECURSIVE Canon(_)
Canon(n) ==
  IF n = 0 THEN {<<>>}
  ELSE UNION { {Append(s, x) : x \in 1..(Max({s[i] : i \in 1..Len(s)}) + 1)} :
               s \in Canon(n - 1) }

\* the k-tuples of naturals that sum to a
RECURSIVE Cuts(_, _)
Cuts(k, a) ==
  IF k = 0 THEN (IF a = 0 THEN {<<>>} ELSE {})
  ELSE UNION { {<<x>> \o t : t \in Cuts(k - 1, a - x)} : x \in 0..a }

RECURSIVE Offset(_, _)
Offset(L, k) == IF k = 0 THEN 0 ELSE L[k] + Offset(L, k - 1)

MkCRN(s, L, rv) ==
  [i \in 1..Len(rv) |->
     [reactants |-> SubSeq(s, Offset(L, 2*i - 2) + 1, Offset(L, 2*i - 1)),
      products |-> SubSeq(s, Offset(L, 2*i - 1) + 1, Offset(L, 2*i)),
      reversible |-> rv[i]]]

Names(l) ==
  UNION { {l[i].reactants[k] : k \in 1..Len(l[i].reactants)}
          \cup {l[i].products[k] : k \in 1..Len(l[i].products)} :
          i \in 1..Len(l) }

\* the reaction list with every species name replaced by the species' structure
resolve(l, sp) ==
  [i \in 1..Len(l) |->
     [reactants |-> [k \in 1..Len(l[i].reactants) |-> sp[l[i].reactants[k]]],
      products |-> [k \in 1..Len(l[i].products) |-> sp[l[i].products[k]]],
      reversible |-> l[i].reversible]]

\* formal applied to the species 1..n in turn
snoc(t, h) == [val |-> Append(t.val, h.val), c |-> h.c]

RECURSIVE map_formal(_, _)
map_formal_from(t, n) == snoc(t, formal(n, t.c))

map_formal(n, c) ==
  IF n = 0 THEN [val |-> <<>>, c |-> c]
  ELSE map_formal_from(map_formal(n - 1, c), n)

----------------------------------------------------------------------------
Init ==
  /\ \E R \in 1..MaxRxns, a \in 0..MaxOccur :
       \E s \in Canon(a), L \in Cuts(2*R, a), rv \in [1..R -> BOOLEAN] :
          crn = MkCRN(s, L, rv)
  /\ pc = "formal"
  /\ counter = 1
  /\ species = <<>>
  /\ out = {}
  /\ gates = <<>>

\* every species of the CRN gets its formal structure, once
Instantiated(g) ==
  /\ species' = g.val
  /\ counter' = g.c

Formals ==
  /\ pc = "formal"
  /\ Instantiated(map_formal(Max(Names(crn)), counter))
  /\ pc' = "main"
  /\ UNCHANGED <<crn, out, gates>>

\* main(crn)
Compiled(g) ==
  /\ out' = g.val
  /\ counter' = g.c
  /\ gates' = g.log

Main ==
  /\ pc = "main"
  /\ Compiled(main(resolve(crn, species), counter))
  /\ pc' = "done"
  /\ UNCHANGED <<crn, species>>

Next == Formals \/ Main

Spec == Init /\ [][Next]_vars

----------------------------------------------------------------------------
\* What the properties below read off the compiled gates.

Gate(k) == gates[k]

NR(g) == Len(g.r.reactants)

NP(g) == Len(g.r.products)

Last(q) == q[Len(q)]

\* which builder made a list of complexes, told by the names of its expressions
IsR0(react) == Len(react) = 2 /\ DOMAIN react[2].attr = {"f", "m", "s"}

IsRgate(react) == Len(react) = 2 /\ DOMAIN react[2].attr = {"l"}

IsP1(produce) ==
  Len(produce) = 1 /\ DOMAIN produce[1].attr = {"hx", "fx", "mx", "sx", "sa"}

IsPgate(produce) ==
  Len(produce) = 2 /\ DOMAIN produce[2].attr = {"fx", "help"}

\* the domain ids of a list of complexes
Ids(l) == UNION { {l[i].dom[j].id : j \in 1..Len(l[i].dom)} : i \in 1..Len(l) } \ {0}

GateIds(g) == Ids(g.react \o g.produce)

Triple(x) == {x.attr.f.id, x.attr.m.id, x.attr.s.id}

SpeciesIds == UNION {Triple(species[X]) : X \in 1..Len(species)}

\* the domains a reaction allocates: the fuel f, m, s of srinivas_rgate_r0,
\* the h of flux, the hy of every prodg
Allocated(g) ==
  (IF NR(g) = 0
     THEN <<g.react[2].attr.f, g.react[2].attr.m, g.react[2].attr.s>> ELSE <<>>)
  \o (IF NP(g) >= 1 THEN <<g.react[1].attr.fl[1].attr.h>> ELSE <<>>)
  \o (IF NP(g) >= 2
        THEN [i \in 1..Len(g.produce[1].attr.n) |-> g.produce[1].attr.n[i].attr.hy]
        ELSE <<>>)

\* the pairs (i, j) of a dot-parens sequence, and whether it is balanced
RECURSIVE Scan(_, _, _, _)
Scan(dot, i, stack, pairs) ==
  IF i > Len(dot) THEN [ok |-> Len(stack) = 0, pairs |-> pairs]
  ELSE IF dot[i] = "(" THEN Scan(dot, i + 1, <<i>> \o stack, pairs)
  ELSE IF dot[i] = ")"
    THEN IF Len(stack) = 0 THEN [ok |-> FALSE, pairs |-> pairs]
         ELSE Scan(dot, i + 1, Tail(stack), pairs \cup {<<stack[1], i>>})
  ELSE Scan(dot, i + 1, stack, pairs)

PairsComplementary(x, s) ==
  /\ s.ok
  /\ \A pr \in s.pairs :
       /\ ~x.dom[pr[1]].star
       /\ x.dom[pr[2]] = Comp(x.dom[pr[1]])

WellPaired(x) ==
  /\ Len(x.dot) = Len(x.dom)
  /\ \A i \in 1..Len(x.dot) :
       /\ x.dot[i] \in {"(", ")", ".", "+"}
       /\ (x.dot[i] = "+") <=> (x.dom[i] = Break)
  /\ PairsComplementary(x, Scan(x.dot, 1, <<>>, {}))

Opens(x) == Cardinality({i \in 1..Len(x.dot) : x.dot[i] = "("})

----------------------------------------------------------------------------
\* C1: every complex of the solution has a balanced structure as long as its
\* domain sequence, and every opening position is closed by the complement of
\* the domain it holds.
C1_Paired == \A x \in out : WellPaired(x)

\* a reactant gate with two junctions and a product gate with two prodg
C1_Witness ==
  /\ pc = "done"
  /\ \E k \in 1..Len(gates) : NR(Gate(k)) = 3 /\ Opens(Gate(k).react[1]) = 8
  /\ \E k \in 1..Len(gates) : NP(Gate(k)) = 3 /\ Opens(Gate(k).produce[1]) = 6

Forward(x) ==
  [reactants |-> x.reactants, products |-> x.products, reversible |-> FALSE]

Backward(x) ==
  [reactants |-> x.products, products |-> x.reactants, reversible |-> FALSE]

HalvesUnion(x, c) ==
  rxn(Forward(x), c).val \cup rxn(Backward(x), rxn(Forward(x), c).c).val

\* C3: a CRN of one reversible reaction compiles to the union of rxn of its
\* forward reaction and rxn of its backward reaction, the forward one first
\* (the allocator goes from one to the other); an irreversible one to its rxn.
C3_Reversible ==
  (pc = "done" /\ Len(crn) = 1) =>
     IF crn[1].reversible
       THEN /\ Len(gates) = 2
            /\ out = HalvesUnion(resolve(crn, species)[1], 3 * Len(species) + 1)
       ELSE /\ Len(gates) = 1
            /\ out = rxn(resolve(crn, species)[1], 3 * Len(species) + 1).val

\* A + B <-> C
C3_Witness ==
  /\ pc = "done"
  /\ crn = << [reactants |-> <<1, 2>>, products |-> <<3>>, reversible |-> TRUE] >>
  /\ Len(gates) = 2
  /\ NR(Gate(1)) = 2 /\ NP(Gate(1)) = 1
  /\ NR(Gate(2)) = 1 /\ NP(Gate(2)) = 2

NoneToTwo ==
  /\ pc = "done"
  /\ Len(crn) = 1
  /\ ~crn[1].reversible
  /\ Len(crn[1].reactants) = 0
  /\ Len(crn[1].products) = 2

\* C4 as stated: the irreversible reaction -> X + Y is built by
\* srinivas_rgate_r0 and srinivas_pgate, and the product gate holds two prodg
\* sub-complexes.
C4_TwoProdg ==
  (NoneToTwo /\ crn[1].products = <<1, 2>>) =>
     /\ IsR0(Gate(1).react)
     /\ IsPgate(Gate(1).produce)
     /\ Len(Gate(1).produce[1].attr.n) = 2

\* C4 amended: the product gate holds one prodg sub-complex, that of the
\* second product Y; the first product X is held by the gate's top strand.
C4_OneProdg ==
  NoneToTwo =>
     /\ IsR0(Gate(1).react)
     /\ IsPgate(Gate(1).produce)
     /\ Len(Gate(1).produce[1].attr.n) = 1
     /\ Len(Gate(1).produce[1].attr.m) = 1
     /\ Len(Gate(1).produce[2].attr.help) = 1
     /\ Gate(1).produce[1].attr.n[1].attr.fy = species[crn[1].products[2]].attr.f
     /\ Gate(1).produce[1].attr.n[1].attr.my = species[crn[1].products[2]].attr.m
     /\ Gate(1).produce[1].attr.n[1].attr.sy = species[crn[1].products[2]].attr.s
     /\ Gate(1).produce[1].attr.fx = species[crn[1].products[1]].attr.f

C4_Witness ==
  /\ NoneToTwo
  /\ crn[1].products = <<1, 2>>
  /\ IsPgate(Gate(1).produce)

\* C5: the domains a reaction allocates differ from one another, from the
\* species' domains and from every domain of the complexes of the other
\* reactions.
C5_Fresh ==
  \A k \in 1..Len(gates) :
     /\ \A i, j \in 1..Len(Allocated(Gate(k))) :
          i # j => Allocated(Gate(k))[i].id # Allocated(Gate(k))[j].id
     /\ \A i \in 1..Len(Allocated(Gate(k))) :
          /\ Allocated(Gate(k))[i].id \notin SpeciesIds
          /\ ~Allocated(Gate(k))[i].star
          /\ Allocated(Gate(k))[i].id \in GateIds(Gate(k))
          /\ \A k2 \in 1..Len(gates) :
               k2 # k => Allocated(Gate(k))[i].id \notin GateIds(Gate(k2))

\* the two halves of <-> X + Y: the forward one allocates f, m, s, h and hy,
\* the backward one nothing; and a second reaction that allocates
C5_Witness ==
  /\ pc = "done"
  /\ Len(gates) = 3
  /\ Len(Allocated(Gate(1))) = 5
  /\ Len(Allocated(Gate(2))) = 0
  /\ Len(Allocated(Gate(3))) >= 1

NamesOf(x) ==
  {x.reactants[i] : i \in 1..Len(x.reactants)}
  \cup {x.products[i] : i \in 1..Len(x.products)}

UsesSpecies(g, x) ==
  /\ g.r.reactants = [i \in 1..Len(x.reactants) |-> species[x.reactants[i]]]
  /\ g.r.products = [i \in 1..Len(x.products) |-> species[x.products[i]]]
  /\ GateIds(g) \cap SpeciesIds = UNION {Triple(species[X]) : X \in NamesOf(x)}
  /\ NR(g) >= 1 =>
       /\ g.react[1].attr.fr = species[x.reactants[1]].attr.f
       /\ g.react[1].attr.mr = species[Last(x.reactants)].attr.m
       /\ g.react[1].attr.sr = species[Last(x.reactants)].attr.s
  /\ NP(g) >= 1 =>
       /\ g.produce[1].attr.fx = species[x.products[1]].attr.f
       /\ g.produce[1].attr.mx = species[x.products[1]].attr.m
       /\ g.produce[1].attr.sx = species[x.products[1]].attr.s

\* C6: a species has one triple of three domains of its own, and the complexes
\* of a reaction use, of the species' domains, those of the reaction's species:
\* the reactants and products are the species' structures themselves.
C6_Species ==
  pc = "done" =>
     /\ \A X \in 1..Len(species) :
          /\ Cardinality(Triple(species[X])) = 3
          /\ \A Y \in 1..Len(species) :
               X # Y => Triple(species[X]) \cap Triple(species[Y]) = {}
     /\ \A k \in 1..Len(gates) : UsesSpecies(Gate(k), irrev_reactions(crn)[k])

\* species 1 is a reactant of the first reaction and a product of the second
C6_Witness ==
  /\ pc = "done"
  /\ Len(crn) = 2
  /\ Len(species) = 2
  /\ 1 \in {crn[1].reactants[i] : i \in 1..Len(crn[1].reactants)}
  /\ 1 \in {crn[2].products[i] : i \in 1..Len(crn[2].products)}
  /\ Len(gates) >= 2

NewLong(d, g) ==
  /\ d.kind = "long"
  /\ ~d.star
  /\ d.id >= g.c0
  /\ d.id < g.c1
  /\ d.id \notin SpeciesIds

FluxOf(g) == g.react[1].attr.fl

\* C7: the flux of a reaction is empty with no product, the unpaired strand
\* "h f" of a newly allocated long domain h and the product's f with one
\* product, and the strand "h" of a newly allocated long domain alone with
\* two or more, whatever the reactants.
C7_Flux ==
  \A k \in 1..Len(gates) :
     /\ NP(Gate(k)) = 0 =>
          /\ Len(FluxOf(Gate(k))) = 0
          /\ Gate(k).c1 = Gate(k).c0 + (IF NR(Gate(k)) = 0 THEN 3 ELSE 0)
     /\ NP(Gate(k)) = 1 =>
          /\ Len(FluxOf(Gate(k))) = 1
          /\ FluxOf(Gate(k))[1].dot = <<".", ".">>
          /\ Len(FluxOf(Gate(k))[1].dom) = 2
          /\ NewLong(FluxOf(Gate(k))[1].dom[1], Gate(k))
          /\ FluxOf(Gate(k))[1].dom[2] = Gate(k).r.products[1].attr.f
     /\ NP(Gate(k)) >= 2 =>
          /\ Len(FluxOf(Gate(k))) = 1
          /\ FluxOf(Gate(k))[1].dot = <<".">>
          /\ Len(FluxOf(Gate(k))[1].dom) = 1
          /\ NewLong(FluxOf(Gate(k))[1].dom[1], Gate(k))

\* A <-> B + C: two products forward, one product backward
C7_Witness ==
  /\ pc = "done"
  /\ Len(gates) = 2
  /\ NP(Gate(1)) = 2 /\ Len(FluxOf(Gate(1))[1].dom) = 1
  /\ NP(Gate(2)) = 1 /\ Len(FluxOf(Gate(2))[1].dom) = 2

FluxAt(g) == IF NR(g) = 0 THEN 3 ELSE 4 * NR(g)

\* C8: with a product, the hx of the product gate's top complex, and the hx*
\* that closes it, is the h of the flux strand inside the reactant gate's main
\* complex, for both reactant gates; without a product there is no product
\* gate and the flux is empty.
C8_Hist ==
  \A k \in 1..Len(gates) :
     /\ NP(Gate(k)) >= 1 =>
          /\ Gate(k).react[1].dom[FluxAt(Gate(k))] = FluxOf(Gate(k))[1].attr.h
          /\ Gate(k).produce[1].attr.hx = FluxOf(Gate(k))[1].attr.h
          /\ Gate(k).produce[1].dom[1] = FluxOf(Gate(k))[1].attr.h
          /\ Gate(k).produce[1].dot[1] = "("
          /\ Gate(k).produce[1].dom[Len(Gate(k).produce[1].dom) - 1]
               = Comp(FluxOf(Gate(k))[1].attr.h)
          /\ Gate(k).produce[1].dot[Len(Gate(k).produce[1].dom) - 1] = ")"
     /\ NP(Gate(k)) = 0 =>
          /\ Len(Gate(k).produce) = 0
          /\ Len(FluxOf(Gate(k))) = 0

\* -> X and its reverse X -> : srinivas_rgate_r0 with a product gate, then
\* srinivas_rgate without one; and a reaction of srinivas_rgate with a product
C8_Witness ==
  /\ pc = "done"
  /\ Len(gates) = 3
  /\ NR(Gate(1)) = 0 /\ NP(Gate(1)) = 1
  /\ NR(Gate(2)) = 1 /\ NP(Gate(2)) = 0
  /\ NR(Gate(3)) = 1 /\ NP(Gate(3)) = 1

SrAt(g) == FluxAt(g) - 1

\* C9: with a product, the sa* that ends the product gate's top complex is the
\* complement of the sr of the reactant gate: the s of the last reactant, or
\* with no reactant the s of the fuel "f m s" that srinivas_rgate_r0 made.
C9_Anchor ==
  \A k \in 1..Len(gates) :
     NP(Gate(k)) >= 1 =>
        /\ Last(Gate(k).produce[1].dom) = Comp(Gate(k).react[1].attr.sr)
        /\ Last(Gate(k).produce[1].dot) = "."
        /\ Gate(k).react[1].dom[SrAt(Gate(k))] = Gate(k).react[1].attr.sr
        /\ Gate(k).react[1].dot[SrAt(Gate(k))] = "("
        /\ NR(Gate(k)) >= 1 =>
             Gate(k).react[1].attr.sr = Last(Gate(k).r.reactants).attr.s
        /\ NR(Gate(k)) = 0 =>
             /\ Len(Gate(k).react[2].dom) = 3
             /\ Gate(k).react[1].attr.sr = Gate(k).react[2].dom[3]
             /\ Gate(k).react[2].dom[3] = Gate(k).react[2].attr.s
             /\ Gate(k).react[2].attr.s.kind = "short"
             /\ Gate(k).react[2].attr.s.id >= Gate(k).c0

\* -> X then X -> Y: the anchor is react, then the reactants
C9_Witness ==
  /\ pc = "done"
  /\ Len(gates) = 2
  /\ NR(Gate(1)) = 0 /\ NP(Gate(1)) = 1 /\ IsP1(Gate(1).produce)
  /\ NR(Gate(2)) = 1 /\ NP(Gate(2)) = 1 /\ IsP1(Gate(2).produce)

Junction(g, i) ==
  /\ g.react[1].attr.n[i].dom =
       << g.r.reactants[i].attr.m, g.r.reactants[i].attr.s,
          g.r.reactants[i + 1].attr.f, Break >>
  /\ g.react[1].attr.m[NR(g) - i].dom =
       << Comp(g.r.reactants[i + 1].attr.f), Comp(g.r.reactants[i].attr.s),
          Comp(g.r.reactants[i].attr.m) >>
  /\ g.react[2].attr.l[i].dom =
       << g.r.reactants[i].attr.m, g.r.reactants[i].attr.s,
          g.r.reactants[i + 1].attr.f >>

FluxLen(g) == IF NP(g) = 0 THEN 0 ELSE IF NP(g) = 1 THEN 2 ELSE 1

\* C10: srinivas_rgate with N reactants builds the N-1 junctions of r[i].m,
\* r[i].s, r[i+1].f for i < N-1 (none with N = 1), stems on the m and s of
\* the last reactant and ends on the complement of the f of the first.
C10_Junctions ==
  \A k \in 1..Len(gates) :
     NR(Gate(k)) >= 1 =>
        /\ IsRgate(Gate(k).react)
        /\ Len(Gate(k).react[1].attr.n) = NR(Gate(k)) - 1
        /\ Len(Gate(k).react[1].attr.m) = NR(Gate(k)) - 1
        /\ Len(Gate(k).react[2].attr.l) = NR(Gate(k)) - 1
        /\ \A i \in 1..(NR(Gate(k)) - 1) : Junction(Gate(k), i)
        /\ Len(Gate(k).react[1].dom) = 7 * (NR(Gate(k)) - 1) + 7 + FluxLen(Gate(k))
        /\ Len(Gate(k).react[2].dom) = 3 * (NR(Gate(k)) - 1)
        /\ Gate(k).react[1].attr.mr = Last(Gate(k).r.reactants).attr.m
        /\ Gate(k).react[1].attr.sr = Last(Gate(k).r.reactants).attr.s
        /\ Gate(k).react[1].dom[4 * NR(Gate(k)) - 2] = Last(Gate(k).r.reactants).attr.m
        /\ Gate(k).react[1].dom[4 * NR(Gate(k)) - 1] = Last(Gate(k).r.reactants).attr.s
        /\ Last(Gate(k).react[1].dom) = Comp(Gate(k).r.reactants[1].attr.f)
        /\ Last(Gate(k).react[1].dot) = "."

\* A + B + C -> : two junctions, of three different species
C10_Witness ==
  /\ pc = "done"
  /\ \E k \in 1..Len(gates) :
       /\ NR(Gate(k)) = 3
       /\ Len(Gate(k).react[1].attr.n) = 2
       /\ Gate(k).r.reactants[1] # Gate(k).r.reactants[2]
       /\ Gate(k).r.reactants[2] # Gate(k).r.reactants[3]
       /\ Gate(k).r.reactants[1] # Gate(k).r.reactants[3]

====
